---- MODULE Spec2Model ----
(***************************************************************************)
(* Ledger consistency engine of the financial tracker API: accounts,       *)
(* transactions, per-tag categories and savings goals stored in MongoDB    *)
(* through mongoose, with multi-document transactions (sessions).          *)
(*                                                                         *)
(* Every handler is modelled await by await: a read made without the       *)
(* session sees the committed collections, a read or write made with the   *)
(* session sees the snapshot pinned by the session's first operation plus  *)
(* the session's own staged writes, and a staged write to a document that  *)
(* another unit changed after the snapshot (or holds uncommitted) throws a *)
(* write conflict.  Consecutive session operations of one handler form one *)
(* step, its commit another.                                               *)
(***************************************************************************)
EXTENDS Integers, Sequences, FiniteSets, TLC

(* ------------------------------ bounds -------------------------------- *)

\* largest amount a request carries
MaxAmount == 2
\* number of transaction ids that can be handed out
MaxTx == 2
\* number of goal ids that can be handed out
MaxGoals == 1
\* number of requests served in one behaviour
MaxOps == 3
\* number of fields an update body carries
MaxFields == 2

AcctIds == {1, 2}
TxIds == 1..MaxTx
\* the goal ids: those handed out to createGoal requests, and one more for
\* every account, for the goals the provisioning script creates
GoalIds == 1..(MaxGoals + Cardinality(AcctIds))
\* the two request slots: the requests that may be in flight together
Slots == {1, 2}

\* enum of Transaction.tipe and Category.type
Types == {"income", "expense"}
\* what a request body may carry as tipe ("transfer" is outside the enum)
TipeInputs == Types \cup {"transfer"}
\* what a request body may carry as nominal
Nominals == 0..MaxAmount
\* goal titles a request may carry
Titles == {"Dana Darurat"}

\* goalSchema.status enum
Statuses == {"active", "completed", "paused"}

\* title.toLowerCase().replace(/\s+/g, '-')
Slug(title) ==
    CASE title = "Dana Darurat" -> "dana-darurat"
      [] OTHER -> title

\* tag arrays a request may carry (" " is a blank tag)
TagChoices == { << >>, <<" ">>, <<"food">>, <<"food", "rent">> }

\* every non-blank tag name that can reach a category
TagNames == {"food", "rent", "goal", "savings", "withdrawal"} \cup {Slug(t) : t \in Titles}

\* every name a category document could carry: a tag is stored as it is given
CatNames == TagNames \cup {" "}

CatKeys == AcctIds \X CatNames \X Types

\* an optional request field: << >> when absent, <<v>> when given
Opt(S) == { << >> } \cup { <<v>> : v \in S }

(* ----------------------------- documents ------------------------------ *)

NoAccount == [ex |-> FALSE, balance |-> 0]
NoTx == [ex |-> FALSE, id_akun |-> 0, tipe |-> "", nominal |-> 0, tags |-> << >>]
NoCategory == [ex |-> FALSE, balance |-> 0, copies |-> 0]
NoGoal == [ex |-> FALSE, user_id |-> 0, title |-> "", target_amount |-> 0,
           saved_amount |-> 0, status |-> ""]

\* document keys, for write sets: collection, id, and for a category its
\* name and type
KA(a) == <<"account", a, "", "">>
KT(i) == <<"transaction", i, "", "">>
KC(k) == <<"category", k[1], k[2], k[3]>>
KG(g) == <<"goal", g, "", "">>

VARIABLES
    accounts,   \* committed Account collection: [AcctIds -> document]
    txs,        \* committed Transaction collection: [TxIds -> document]
    cats,       \* committed Category collection, by its unique index
    goals,      \* committed Goal collection: [GoalIds -> document]
    nextTx,     \* next fresh Transaction _id
    nextGoal,   \* next fresh Goal _id
    req,        \* the requests in flight: [Slots -> request]
    nops,       \* requests served so far
    hist        \* observer: what the last committed units did

vars == <<accounts, txs, cats, goals, nextTx, nextGoal, req, nops, hist>>
db == <<accounts, txs, cats, goals>>

\* the committed collections as one value: what a snapshot pins
DbView == [accounts |-> accounts, txs |-> txs, cats |-> cats, goals |-> goals]

NoRes == [code |-> 0, available |-> << >>]
\* res.status(code).json({message})
Res(code, message) == [code |-> code, available |-> << >>]

NoView == [accounts |-> << >>, txs |-> << >>, cats |-> << >>, goals |-> << >>]

\* a free slot; res keeps the response of the request it served last, and
\* loc.aborted the keys of the staged writes its abort dropped
Idle(res) == [op |-> "idle", pc |-> "idle", arg |-> << >>,
              loc |-> [aborted |-> {}],
              snap |-> FALSE, view |-> NoView, wkeys |-> {}, stale |-> {},
              res |-> res]

NoHist == [kind |-> "none"]

Init ==
    /\ accounts = [a \in AcctIds |-> [ex |-> TRUE, balance |-> 0]]
    /\ txs = [i \in TxIds |-> NoTx]
    /\ cats = [k \in CatKeys |-> NoCategory]
    /\ goals = [g \in GoalIds |-> NoGoal]
    /\ nextTx = 1
    /\ nextGoal = 1
    /\ req = [r \in Slots |-> Idle(NoRes)]
    /\ nops = 0
    /\ hist = NoHist

(* ------------------------- unit of work (session) --------------------- *)

\* The session of request r as the next session operation finds it: the
\* first operation pins the snapshot.
Sess(r) ==
    IF req[r].snap
    THEN [view |-> req[r].view, wkeys |-> req[r].wkeys, err |-> FALSE]
    ELSE [view |-> DbView, wkeys |-> {}, err |-> FALSE]

\* keys r may not write: changed by a unit committed after r's snapshot, or
\* held uncommitted by the other unit
Blocked(r) ==
    (IF req[r].snap THEN req[r].stale ELSE {})
        \cup UNION { req[o].wkeys : o \in Slots \ {r} }

\* a staged write of s throws a write conflict
WriteConflict(r, s) == s.wkeys \cap Blocked(r) # {}

Throw(s) == [s EXCEPT !.err = TRUE]

\* Model.findByIdAndUpdate(id, {balance}, {session}) on Account
AccountSetBalance(s, a, bal) ==
    IF s.view.accounts[a].ex
    THEN [s EXCEPT !.view.accounts[a].balance = bal,
                   !.wkeys = @ \cup {KA(a)}]
    ELSE s

\* mutant: the collection has no unique index
DuplicateKeyNever(categories, k) == FALSE

\* categorySchema.index({user_id, name, type}, {unique: true}): an insert or
\* a rename onto a triple that a document of categories holds is refused
DuplicateKey(categories, k) == categories[k].ex

\* the documents of a triple after one more was inserted with this balance;
\* copies counts them, and findOne keeps returning the first
Inserted(c, balance) ==
    [ex |-> TRUE,
     balance |-> IF c.ex THEN c.balance ELSE balance,
     copies |-> c.copies + 1]

\* mutant: the tag is not trimmed
IsBlankUntrimmed(tag) == tag = ""

\* !tagName.trim()
IsBlank(tag) == tag \in {"", " "}

\* mutant: a category whose balance comes back to 0 is removed
CategoryAddPrunes(s, acct, tagName, tipe, amount) ==
    IF tipe \in Types /\ s.view.cats[<<acct, tagName, tipe>>].ex
    THEN IF amount = 0
         THEN s
         ELSE IF s.view.cats[<<acct, tagName, tipe>>].balance + amount = 0
         THEN [s EXCEPT !.view.cats[<<acct, tagName, tipe>>] = NoCategory,
                        !.wkeys = @ \cup {KC(<<acct, tagName, tipe>>)}]
         ELSE [s EXCEPT !.view.cats[<<acct, tagName, tipe>>].balance = @ + amount,
                        !.wkeys = @ \cup {KC(<<acct, tagName, tipe>>)}]
    ELSE IF tipe \in Types
         THEN [s EXCEPT !.view.cats[<<acct, tagName, tipe>>] =
                            Inserted(@, amount),
                        !.wkeys = @ \cup {KC(<<acct, tagName, tipe>>)}]
         ELSE Throw(s)

\* category.save({session}) in updateCategoryBalances, for one tag
CategoryAdd(s, acct, tagName, tipe, amount) ==
    IF tipe \in Types /\ s.view.cats[<<acct, tagName, tipe>>].ex
    THEN IF amount = 0
         THEN s   \* no modified path: save() sends nothing
         ELSE [s EXCEPT !.view.cats[<<acct, tagName, tipe>>].balance = @ + amount,
                        !.wkeys = @ \cup {KC(<<acct, tagName, tipe>>)}]
    ELSE IF tipe \in Types
         THEN [s EXCEPT !.view.cats[<<acct, tagName, tipe>>] =
                            Inserted(@, amount),
                        !.wkeys = @ \cup {KC(<<acct, tagName, tipe>>)}]
         ELSE Throw(s)   \* Category.type fails its enum validator

RECURSIVE CategoryLoop(_, _, _, _)
CategoryLoop(s, tx, amount, i) ==
    IF i > Len(tx.tags) \/ s.err THEN s
    ELSE IF IsBlank(tx.tags[i]) THEN CategoryLoop(s, tx, amount, i + 1)
    ELSE CategoryLoop(CategoryAdd(s, tx.id_akun, tx.tags[i], tx.tipe, amount),
                      tx, amount, i + 1)

\* mutant: the amount is added also when it is to be reversed
updateCategoryBalancesNoReverse(s, tx, reverseAmount) ==
    IF s.err \/ Len(tx.tags) = 0 THEN s
    ELSE CategoryLoop(s, tx, tx.nominal, 1)

updateCategoryBalances(s, tx, reverseAmount) ==
    IF s.err \/ Len(tx.tags) = 0 THEN s
    ELSE CategoryLoop(s, tx, IF reverseAmount THEN 0 - tx.nominal ELSE tx.nominal, 1)

\* session.commitTransaction(): the staged writes of s become the committed
\* documents, all at once
Committed(s) ==
    [accounts |-> [a \in AcctIds |->
                     IF KA(a) \in s.wkeys THEN s.view.accounts[a] ELSE accounts[a]],
     txs |-> [i \in TxIds |->
                     IF KT(i) \in s.wkeys THEN s.view.txs[i] ELSE txs[i]],
     cats |-> [k \in CatKeys |->
                     IF KC(k) \in s.wkeys THEN s.view.cats[k] ELSE cats[k]],
     goals |-> [g \in GoalIds |->
                     IF KG(g) \in s.wkeys THEN s.view.goals[g] ELSE goals[g]]]

\* the requests after r ended with response res; keys are what r committed
Ended(r, res, keys) ==
    [o \in Slots |->
        IF o = r THEN Idle(res)
        ELSE IF req[o].snap THEN [req[o] EXCEPT !.stale = @ \cup keys]
        ELSE req[o]]

\* r goes on to step pc with session s and locals loc
Going(r, pc, s, loc) ==
    [req EXCEPT ![r] = [@ EXCEPT !.pc = pc, !.loc = loc, !.snap = TRUE,
                                 !.view = s.view, !.wkeys = s.wkeys]]

\* r goes on to step pc without having touched its session
Reading(r, pc, loc) ==
    [req EXCEPT ![r] = [@ EXCEPT !.pc = pc, !.loc = loc]]

Started(op, pc, arg, loc) ==
    [op |-> op, pc |-> pc, arg |-> arg, loc |-> loc,
     snap |-> FALSE, view |-> NoView, wkeys |-> {}, stale |-> {}, res |-> NoRes]

\* a slot is free and the behaviour may serve one more request
CanStart(r) == req[r].op = "idle" /\ nops < MaxOps

(* ------------------------------ observer ------------------------------ *)

\* balance of a category, 0 when the category does not exist
CatBal(c) == IF c.ex THEN c.balance ELSE 0

\* the category keys the tags of tx name
TouchedKeys(tx) ==
    { k \in CatKeys : /\ k[1] = tx.id_akun
                      /\ k[3] = tx.tipe
                      /\ ~(k[2] \in {"", " "})
                      /\ \E i \in 1..Len(tx.tags) : tx.tags[i] = k[2] }

\* hist follows one created transaction (the first created while none is
\* followed) from the commit of its create to the
\* commit of its delete: bal is the balance every account held before the
\* create, moved by what the units committed in between did to it; cat is
\* the balance every category held before the create.  Another unit that
\* changes a category of the followed transaction, or an update of the
\* followed transaction, ends the observation.
Follow(id, tx) ==
    [kind |-> "created", id |-> id, tx |-> tx,
     bal |-> [a \in AcctIds |-> accounts[a].balance],
     cat |-> [k \in CatKeys |-> CatBal(cats[k])]]

Between(new) ==
    IF hist.kind = "rebuilt"
    THEN IF new.txs = txs /\ new.cats = cats THEN hist ELSE NoHist
    ELSE IF hist.kind # "created" THEN NoHist
    ELSE IF \/ new.txs[hist.id] # txs[hist.id]
            \/ \E k \in TouchedKeys(hist.tx) : new.cats[k] # cats[k]
    THEN NoHist
    ELSE [hist EXCEPT !.bal = [a \in AcctIds |->
                @[a] + new.accounts[a].balance - accounts[a].balance]]

\* hist after a rebuild for account userId committed new: "rebuilt" keeps the
\* categories the first run left, until a unit changes a transaction or a
\* category; "rebuilt2" says that a second run committed before that
Rebuilt(userId, new) ==
    IF hist.kind = "rebuilt" /\ hist.id = userId
    THEN [hist EXCEPT !.kind = "rebuilt2"]
    ELSE [kind |-> "rebuilt", id |-> userId, cat |-> new.cats,
          wrote |-> new.cats # cats]

\* the observer after a unit of kind op on transaction id (on account id, for
\* a rebuild) committed new
Observe(op, id, new) ==
    IF op = "rebuild" THEN {Rebuilt(id, new)}
    ELSE IF op = "create" /\ new.txs[id].ex /\ hist.kind # "created"
    THEN {Follow(id, new.txs[id])}
    ELSE IF op = "delete" /\ hist.kind = "created" /\ hist.id = id
                 /\ txs[id] = hist.tx /\ ~new.txs[id].ex
    THEN {[hist EXCEPT !.kind = "deleted"]}
    ELSE {Between(new)}

(* --------------------------- createTransaction ------------------------ *)

NewTransaction(id_akun, tipe, nominal, tags) ==
    [ex |-> TRUE, id_akun |-> id_akun, tipe |-> tipe, nominal |-> nominal,
     tags |-> tags]

\* transactionSchema validators that transaction.save() runs
TransactionValid(tx) == tx.tipe \in Types

\* income adds, expense subtracts, any other tipe leaves the balance
Credit(balance, tipe, nominal) ==
    IF tipe = "income" THEN balance + nominal
    ELSE IF tipe = "expense" THEN balance - nominal
    ELSE balance

\* the reverse of Credit
Debit(balance, tipe, nominal) ==
    IF tipe = "income" THEN balance - nominal
    ELSE IF tipe = "expense" THEN balance + nominal
    ELSE balance

\* request arrives; new Transaction(...).save({session})
CreateSave(r, id_akun, tipe, nominal, tags) ==
    /\ CanStart(r)
    /\ nextTx <= MaxTx
    /\ nops' = nops + 1
    /\ LET tx == NewTransaction(id_akun, tipe, nominal, tags)
           s0 == Sess(r)
           s == [s0 EXCEPT !.view.txs[nextTx] = tx,
                           !.wkeys = @ \cup {KT(nextTx)}]
           arg == [id |-> nextTx, id_akun |-> id_akun, tipe |-> tipe,
                   nominal |-> nominal, tags |-> tags]
       IN IF TransactionValid(tx)
          THEN /\ req' = [req EXCEPT ![r] =
                            [Started("create", "c_account", arg, << >>)
                                EXCEPT !.snap = TRUE, !.view = s.view,
                                       !.wkeys = s.wkeys]]
               /\ nextTx' = nextTx + 1
          ELSE /\ req' = [req EXCEPT ![r] = Idle(Res(400, "validation"))]
               /\ UNCHANGED nextTx
    /\ UNCHANGED <<accounts, txs, cats, goals, nextGoal, hist>>

\* mutant: the handler answers 404 and the saved transaction stays
CreateFindAccountKeepsRecord(r) ==
    /\ req[r].op = "create" /\ req[r].pc = "c_account"
    /\ IF accounts[req[r].arg.id_akun].ex
       THEN /\ req' = Reading(r, "c_apply",
                              [balance |-> accounts[req[r].arg.id_akun].balance])
            /\ UNCHANGED txs
       ELSE /\ req' = Ended(r, Res(404, "Account not found"), {})
            /\ txs' = Committed(Sess(r)).txs
    /\ UNCHANGED <<accounts, cats, goals, nextTx, nextGoal, nops, hist>>

\* Account.findById(req.body.id_akun), without the session
CreateFindAccount(r) ==
    /\ req[r].op = "create" /\ req[r].pc = "c_account"
    /\ IF accounts[req[r].arg.id_akun].ex
       THEN req' = Reading(r, "c_apply",
                           [balance |-> accounts[req[r].arg.id_akun].balance])
       ELSE req' = Ended(r, Res(404, "Account not found"), {})
    /\ UNCHANGED <<accounts, txs, cats, goals, nextTx, nextGoal, nops, hist>>

\* Account.findByIdAndUpdate(.., {session}); updateCategoryBalances(newTransaction, session)
CreateApplied(r) ==
    LET a == req[r].arg
        s1 == AccountSetBalance(Sess(r), a.id_akun,
                                Credit(req[r].loc.balance, a.tipe, a.nominal))
    IN updateCategoryBalances(s1, s1.view.txs[a.id], FALSE)

CreateApply(r) ==
    /\ req[r].op = "create" /\ req[r].pc = "c_apply"
    /\ LET s == CreateApplied(r)
       IN IF s.err \/ WriteConflict(r, s)
          THEN req' = Ended(r, Res(400, "error"), {})
          ELSE req' = Going(r, "commit", s, req[r].loc)
    /\ UNCHANGED <<accounts, txs, cats, goals, nextTx, nextGoal, nops, hist>>

(* --------------------------- updateTransaction ------------------------ *)

\* the bodies an update request may carry: every field optional
Given(body) ==
    {f \in {"tipe", "nominal", "tags", "id_akun"} : body[f] # << >>}

UpdateBodies ==
    {body \in [tipe : Opt(TipeInputs), nominal : Opt(Nominals),
               tags : Opt(TagChoices), id_akun : Opt(AcctIds)] :
        Cardinality(Given(body)) <= MaxFields}

\* Transaction.findByIdAndUpdate(id, req.body, {new: true}): the given fields
\* are set, without validation
Merge(tx, body) ==
    [ex |-> TRUE,
     id_akun |-> IF body.id_akun # << >> THEN body.id_akun[1] ELSE tx.id_akun,
     tipe |-> IF body.tipe # << >> THEN body.tipe[1] ELSE tx.tipe,
     nominal |-> IF body.nominal # << >> THEN body.nominal[1] ELSE tx.nominal,
     tags |-> IF body.tags # << >> THEN body.tags[1] ELSE tx.tags]

\* req.body.tipe || originalTransaction.tipe
NewTipe(body, orig) ==
    IF body.tipe # << >> /\ body.tipe[1] # "" THEN body.tipe[1] ELSE orig.tipe

\* req.body.nominal || originalTransaction.nominal
NewNominal(body, orig) ==
    IF body.nominal # << >> /\ body.nominal[1] # 0 THEN body.nominal[1]
    ELSE orig.nominal

\* request arrives; Transaction.findById(req.params.id), without the session
UpdateFindTransaction(r, id) ==
    /\ CanStart(r)
    /\ nops' = nops + 1
    /\ IF txs[id].ex
       THEN req' = [req EXCEPT ![r] =
                      Started("update", "u_account", [id |-> id, body |-> << >>],
                              [orig |-> txs[id], balance |-> 0])]
       ELSE req' = [req EXCEPT ![r] = Idle(Res(404, "Transaction not found"))]
    /\ UNCHANGED <<accounts, txs, cats, goals, nextTx, nextGoal, hist>>

\* Account.findById(originalTransaction.id_akun), without the session
UpdateFindAccount(r) ==
    /\ req[r].op = "update" /\ req[r].pc = "u_account"
    /\ IF accounts[req[r].loc.orig.id_akun].ex
       THEN req' = Reading(r, "u_apply",
                     [req[r].loc EXCEPT
                        !.balance = accounts[req[r].loc.orig.id_akun].balance])
       ELSE req' = Ended(r, Res(404, "Account not found"), {})
    /\ UNCHANGED <<accounts, txs, cats, goals, nextTx, nextGoal, nops, hist>>

\* mutant: the original transaction is not reverted
UpdatedBalanceNoRevert(balance, orig, body) ==
    Credit(balance, NewTipe(body, orig), NewNominal(body, orig))

\* the balance the update writes: the original reverted, the new applied
UpdatedBalance(balance, orig, body) ==
    Credit(Debit(balance, orig.tipe, orig.nominal),
           NewTipe(body, orig), NewNominal(body, orig))

\* revert the categories, update the transaction, write the balance, apply
\* the categories: the session operations of updateTransaction
UpdateApplied(r, body) ==
    LET id == req[r].arg.id
        orig == req[r].loc.orig
        s1 == updateCategoryBalances(Sess(r), orig, TRUE)
        found == s1.view.txs[id].ex
        s2 == IF found
              THEN [s1 EXCEPT !.view.txs[id] = Merge(@, body),
                              !.wkeys = @ \cup {KT(id)}]
              ELSE s1
        s3 == AccountSetBalance(s2, orig.id_akun,
                                UpdatedBalance(req[r].loc.balance, orig, body))
    IN IF found THEN updateCategoryBalances(s3, s3.view.txs[id], FALSE)
       ELSE Throw(s3)   \* updatedTransaction is null

\* req.body is first read here
UpdateApply(r, body) ==
    /\ req[r].op = "update" /\ req[r].pc = "u_apply"
    /\ LET s == UpdateApplied(r, body)
       IN IF s.err \/ WriteConflict(r, s)
          THEN req' = Ended(r, Res(400, "error"), {})
          ELSE req' = [Going(r, "commit", s, req[r].loc)
                         EXCEPT ![r].arg.body = body]
    /\ UNCHANGED <<accounts, txs, cats, goals, nextTx, nextGoal, nops, hist>>

(* --------------------------- deleteTransaction ------------------------ *)

\* request arrives; Transaction.findById(req.params.id), without the session
DeleteFindTransaction(r, id) ==
    /\ CanStart(r)
    /\ nops' = nops + 1
    /\ IF txs[id].ex
       THEN req' = [req EXCEPT ![r] =
                      Started("delete", "d_account", [id |-> id],
                              [orig |-> txs[id], balance |-> 0])]
       ELSE req' = [req EXCEPT ![r] = Idle(Res(404, "Transaction not found"))]
    /\ UNCHANGED <<accounts, txs, cats, goals, nextTx, nextGoal, hist>>

\* Account.findById(transaction.id_akun), without the session
DeleteFindAccount(r) ==
    /\ req[r].op = "delete" /\ req[r].pc = "d_account"
    /\ IF accounts[req[r].loc.orig.id_akun].ex
       THEN req' = Reading(r, "d_apply",
                     [req[r].loc EXCEPT
                        !.balance = accounts[req[r].loc.orig.id_akun].balance])
       ELSE req' = Ended(r, Res(404, "Account not found"), {})
    /\ UNCHANGED <<accounts, txs, cats, goals, nextTx, nextGoal, nops, hist>>

\* mutant: the categories are not reverted
DeleteAppliedKeepsCategories(r) ==
    LET id == req[r].arg.id
        orig == req[r].loc.orig
        s1 == Sess(r)
        s2 == IF s1.view.txs[id].ex
              THEN [s1 EXCEPT !.view.txs[id] = NoTx, !.wkeys = @ \cup {KT(id)}]
              ELSE s1
    IN AccountSetBalance(s2, orig.id_akun,
                         Debit(req[r].loc.balance, orig.tipe, orig.nominal))

\* revert the categories, delete the transaction, write the balance
DeleteApplied(r) ==
    LET id == req[r].arg.id
        orig == req[r].loc.orig
        s1 == updateCategoryBalances(Sess(r), orig, TRUE)
        s2 == IF s1.view.txs[id].ex
              THEN [s1 EXCEPT !.view.txs[id] = NoTx, !.wkeys = @ \cup {KT(id)}]
              ELSE s1
    IN AccountSetBalance(s2, orig.id_akun,
                         Debit(req[r].loc.balance, orig.tipe, orig.nominal))

DeleteApply(r) ==
    /\ req[r].op = "delete" /\ req[r].pc = "d_apply"
    /\ LET s == DeleteApplied(r)
       IN IF s.err \/ WriteConflict(r, s)
          THEN req' = Ended(r, Res(500, "error"), {})
          ELSE req' = Going(r, "commit", s, req[r].loc)
    /\ UNCHANGED <<accounts, txs, cats, goals, nextTx, nextGoal, nops, hist>>

(* ------------------------------- goals -------------------------------- *)

\* amounts a goal request may carry (-1 stands for the negative ones)
GoalAmounts == (0 - 1)..MaxAmount

\* mutant: saved_amount has no minimum
GoalValidNoMin(g) ==
    /\ g.title # ""
    /\ g.target_amount >= 0
    /\ g.status \in Statuses

\* goalSchema validators: title required, target_amount and saved_amount
\* min 0, status in its enum
GoalValid(g) ==
    /\ g.title # ""
    /\ g.target_amount >= 0
    /\ g.saved_amount >= 0
    /\ g.status \in Statuses

\* mutant: a goal that is no longer funded goes back to active
PreSaveReverts(g) ==
    IF g.saved_amount >= g.target_amount
    THEN [g EXCEPT !.status = "completed"]
    ELSE IF g.status = "completed" THEN [g EXCEPT !.status = "active"]
    ELSE g

\* goalSchema.pre('save')
PreSave(g) ==
    IF g.saved_amount >= g.target_amount
    THEN [g EXCEPT !.status = "completed"]
    ELSE g

\* goalSchema.virtual('progress'): Math.min(Math.round(saved / target * 100), 100)
Progress(g) ==
    IF g.target_amount = 0 THEN 0
    ELSE LET rounded == (200 * g.saved_amount + g.target_amount)
                            \div (2 * g.target_amount)
         IN IF rounded < 100 THEN rounded ELSE 100

\* goalSchema.virtual('remaining_amount')
RemainingAmount(g) ==
    IF g.target_amount - g.saved_amount > 0
    THEN g.target_amount - g.saved_amount ELSE 0

\* getGoalsSummary, remaining_amount of one goal: target_amount - saved_amount
SummaryRemaining(g) == g.target_amount - g.saved_amount

\* getGoalsSummary, progress of one goal:
\* Math.round(target > 0 ? Math.min(saved / target * 100, 100) : 0)
SummaryProgress(g) ==
    IF g.target_amount > 0
    THEN IF g.saved_amount >= g.target_amount THEN 100
         ELSE (200 * g.saved_amount + g.target_amount) \div (2 * g.target_amount)
    ELSE 0

\* a write made without a session waits for the unit that holds the document
Free(k) == \A o \in Slots : k \notin req[o].wkeys

\* createGoal: Account.findById, new Goal(...).save()
CreateGoal(userId, title, target, saved) ==
    /\ nops < MaxOps
    /\ nextGoal <= MaxGoals
    /\ nops' = nops + 1
    /\ LET goal == [ex |-> TRUE, user_id |-> userId, title |-> title,
                    target_amount |-> target,
                    saved_amount |-> IF saved # << >> /\ saved[1] # 0
                                     THEN saved[1] ELSE 0,
                    status |-> "active"]
       IN IF accounts[userId].ex /\ GoalValid(goal)
          THEN /\ goals' = [goals EXCEPT ![nextGoal] = PreSave(goal)]
               /\ nextGoal' = nextGoal + 1
          ELSE UNCHANGED <<goals, nextGoal>>
    /\ UNCHANGED <<accounts, txs, cats, nextTx, req, hist>>

\* the bodies a goal update may carry: every field optional
GoalBodies ==
    [target_amount : Opt(GoalAmounts), saved_amount : Opt(GoalAmounts),
     status : Opt(Statuses)]

\* Goal.findByIdAndUpdate(id, req.body, {new: true, runValidators: true}): the
\* given fields are validated and set; no save hook runs
GoalMerge(g, body) ==
    [g EXCEPT
       !.target_amount = IF body.target_amount # << >>
                         THEN body.target_amount[1] ELSE @,
       !.saved_amount = IF body.saved_amount # << >>
                        THEN body.saved_amount[1] ELSE @,
       !.status = IF body.status # << >> THEN body.status[1] ELSE @]

UpdateGoal(id, body) ==
    /\ nops < MaxOps
    /\ nops' = nops + 1
    /\ Free(KG(id))
    /\ IF goals[id].ex /\ GoalValid(GoalMerge(goals[id], body))
       THEN /\ goals' = [goals EXCEPT ![id] = GoalMerge(@, body)]
            /\ req' = [o \in Slots |->
                         IF req[o].snap
                         THEN [req[o] EXCEPT !.stale = @ \cup {KG(id)}]
                         ELSE req[o]]
       ELSE UNCHANGED <<goals, req>>
    /\ UNCHANGED <<accounts, txs, cats, nextTx, nextGoal, hist>>

\* goal.save({session}) after the handler changed saved_amount
GoalSave(s, id, saved) ==
    LET goal == [s.view.goals[id] EXCEPT !.saved_amount = saved]
    IN IF GoalValid(goal)
       THEN [s EXCEPT !.view.goals[id] = PreSave(goal),
                      !.wkeys = @ \cup {KG(id)}]
       ELSE Throw(s)

\* ['goal', 'savings' or 'withdrawal', slug of the title]
GoalTags(goal, second) == <<"goal", second, Slug(goal.title)>>

\* mutant: the record is written and the balance left alone
RecordTransactionOnly(s, id, goal, tipe, amount, second) ==
    [s EXCEPT !.view.txs[id] =
                 NewTransaction(goal.user_id, tipe, amount, GoalTags(goal, second)),
              !.wkeys = @ \cup {KT(id)}]

\* the transaction record of a fund movement, and the balance it moves:
\* transaction.save({session}), Account.findById(..).session(session),
\* Account.findByIdAndUpdate(.., {session})
RecordTransaction(s, id, goal, tipe, amount, second) ==
    LET s1 == [s EXCEPT !.view.txs[id] =
                           NewTransaction(goal.user_id, tipe, amount,
                                          GoalTags(goal, second)),
                        !.wkeys = @ \cup {KT(id)}]
    IN IF s1.view.accounts[goal.user_id].ex
       THEN AccountSetBalance(s1, goal.user_id,
                Credit(s1.view.accounts[goal.user_id].balance, tipe, amount))
       ELSE s1

\* Number(req.body.amount) is a number above 0
AmountValid(amount) == amount > 0

\* request arrives; Goal.findById(req.params.id).session(session)
AllocateFindGoal(r, id, amount, create_transaction) ==
    /\ CanStart(r)
    /\ nops' = nops + 1
    /\ LET arg == [id |-> id, amount |-> amount,
                   create_transaction |-> create_transaction]
       IN IF goals[id].ex
          THEN req' = [req EXCEPT ![r] =
                         [Started("allocate", "a_apply", arg, << >>)
                             EXCEPT !.snap = TRUE, !.view = DbView]]
          ELSE req' = [req EXCEPT ![r] = Idle(Res(404, "Goal not found"))]
    /\ UNCHANGED <<accounts, txs, cats, goals, nextTx, nextGoal, hist>>

\* mutant: the balance is debited whether or not a record was requested
AllocateAppliedDebits(r) ==
    LET s0 == Sess(r)
        a == req[r].arg
        goal == s0.view.goals[a.id]
        s1 == GoalSave(s0, a.id, goal.saved_amount + a.amount)
    IN IF s1.err THEN s1
       ELSE IF a.create_transaction
       THEN RecordTransaction(s1, nextTx, goal, "expense", a.amount, "savings")
       ELSE AccountSetBalance(s1, goal.user_id,
                Credit(s1.view.accounts[goal.user_id].balance, "expense", a.amount))

\* the session operations of allocateFunds, after the goal was found
AllocateApplied(r) ==
    LET s0 == Sess(r)
        a == req[r].arg
        goal == s0.view.goals[a.id]
        s1 == GoalSave(s0, a.id, goal.saved_amount + a.amount)
    IN IF a.create_transaction /\ ~s1.err
       THEN RecordTransaction(s1, nextTx, goal, "expense", a.amount, "savings")
       ELSE s1

\* the amount check, goal.save({session}) and the transaction record
AllocateApply(r) ==
    /\ req[r].op = "allocate" /\ req[r].pc = "a_apply"
    /\ req[r].arg.create_transaction => nextTx <= MaxTx
    /\ LET s == AllocateApplied(r)
       IN IF ~AmountValid(req[r].arg.amount)
          THEN /\ req' = Ended(r, Res(400, "Invalid allocation amount"), {})
               /\ UNCHANGED nextTx
          ELSE IF s.err \/ WriteConflict(r, s)
          THEN /\ req' = Ended(r, Res(400, "error"), {})
               /\ UNCHANGED nextTx
          ELSE /\ req' = Going(r, "commit", s, req[r].loc)
               /\ nextTx' = IF req[r].arg.create_transaction
                            THEN nextTx + 1 ELSE nextTx
    /\ UNCHANGED <<accounts, txs, cats, goals, nextGoal, nops, hist>>

\* request arrives; Goal.findById(req.params.id).session(session)
WithdrawFindGoal(r, id, amount, create_transaction) ==
    /\ CanStart(r)
    /\ nops' = nops + 1
    /\ LET arg == [id |-> id, amount |-> amount,
                   create_transaction |-> create_transaction]
       IN IF goals[id].ex
          THEN req' = [req EXCEPT ![r] =
                         [Started("withdraw", "w_apply", arg, << >>)
                             EXCEPT !.snap = TRUE, !.view = DbView]]
          ELSE req' = [req EXCEPT ![r] = Idle(Res(404, "Goal not found"))]
    /\ UNCHANGED <<accounts, txs, cats, goals, nextTx, nextGoal, hist>>

\* the session operations of withdrawFunds, after the checks passed
WithdrawApplied(r) ==
    LET s0 == Sess(r)
        a == req[r].arg
        goal == s0.view.goals[a.id]
        s1 == GoalSave(s0, a.id, goal.saved_amount - a.amount)
    IN IF a.create_transaction /\ ~s1.err
       THEN RecordTransaction(s1, nextTx, goal, "income", a.amount, "withdrawal")
       ELSE s1

\* mutant: the amount is compared with the target
InsufficientOnTarget(goal, amount) == amount > goal.target_amount

\* amount > goal.saved_amount
Insufficient(goal, amount) == amount > goal.saved_amount

\* res.status(400).json({message, available: goal.saved_amount})
InsufficientRes(goal) == [code |-> 400, available |-> <<goal.saved_amount>>]

\* the amount checks, goal.save({session}) and the transaction record
WithdrawApply(r) ==
    /\ req[r].op = "withdraw" /\ req[r].pc = "w_apply"
    /\ req[r].arg.create_transaction => nextTx <= MaxTx
    /\ LET s == WithdrawApplied(r)
           goal == req[r].view.goals[req[r].arg.id]
       IN IF ~AmountValid(req[r].arg.amount)
          THEN /\ req' = Ended(r, Res(400, "Invalid withdrawal amount"), {})
               /\ UNCHANGED nextTx
          ELSE IF Insufficient(goal, req[r].arg.amount)
          THEN /\ req' = Ended(r, InsufficientRes(goal), {})
               /\ UNCHANGED nextTx
          ELSE IF s.err \/ WriteConflict(r, s)
          THEN /\ req' = Ended(r, Res(400, "error"), {})
               /\ UNCHANGED nextTx
          ELSE /\ req' = Going(r, "commit", s, req[r].loc)
               /\ nextTx' = IF req[r].arg.create_transaction
                            THEN nextTx + 1 ELSE nextTx
    /\ UNCHANGED <<accounts, txs, cats, goals, nextGoal, nops, hist>>

\* Goal.findById(req.params.id) after the commit, and the response
Reread(r) ==
    /\ req[r].op \in {"allocate", "withdraw"}
    /\ req[r].pc = "reread"
    /\ req' = [req EXCEPT ![r] = Idle(Res(200, "ok"))]
    /\ UNCHANGED <<accounts, txs, cats, goals, nextTx, nextGoal, nops, hist>>

\* deleteAccount: Account.findByIdAndDelete(req.params.id)
DeleteAccount(a) ==
    /\ nops < MaxOps
    /\ nops' = nops + 1
    /\ Free(KA(a))
    /\ accounts[a].ex
    /\ accounts' = [accounts EXCEPT ![a] = NoAccount]
    /\ req' = [o \in Slots |->
                 IF req[o].snap THEN [req[o] EXCEPT !.stale = @ \cup {KA(a)}]
                 ELSE req[o]]
    /\ hist' = NoHist
    /\ UNCHANGED <<txs, cats, goals, nextTx, nextGoal>>

(* -------------------------- setupDefaultGoals ------------------------- *)

\* the least target of a seeded goal: Math.max(account.balance * 3, 10000000)
MinTarget == 10000000

SuggestedTarget(balance) ==
    IF balance * 3 > MinTarget THEN balance * 3 ELSE MinTarget

\* the ids of S in the order of their creation
RECURSIVE Ascending(_)
Ascending(S) ==
    IF S = {} THEN << >>
    ELSE LET least == CHOOSE x \in S : \A y \in S : x <= y
         IN <<least>> \o Ascending(S \ {least})

\* Goal.countDocuments({user_id})
CountDocuments(all, userId) ==
    Cardinality({g \in GoalIds : all[g].ex /\ all[g].user_id = userId})

\* the script starts: Account.find().  hist keeps the goals the run found.
SeedFind(r) ==
    /\ CanStart(r)
    /\ nops' = nops + 1
    /\ LET found == Ascending({a \in AcctIds : accounts[a].ex})
       IN req' = [req EXCEPT ![r] =
                    Started("seed", "s_count", << >>,
                            [accounts |-> [i \in 1..Len(found) |->
                                             [id |-> found[i],
                                              balance |-> accounts[found[i]].balance]],
                             i |-> 1, created |-> 0, skipped |-> 0])]
    /\ hist' = [kind |-> "seeding", before |-> goals]
    /\ UNCHANGED <<accounts, txs, cats, goals, nextTx, nextGoal>>

\* mutant: every account is taken to have no goal
SeedCountNever(r) ==
    /\ req[r].op = "seed" /\ req[r].pc = "s_count"
    /\ LET loc == req[r].loc
       IN IF loc.i > Len(loc.accounts)
          THEN req' = [req EXCEPT ![r] = Idle(Res(200, "Setup complete"))]
          ELSE req' = Reading(r, "s_save", loc)
    /\ UNCHANGED <<accounts, txs, cats, goals, nextTx, nextGoal, nops, hist>>

\* the head of the loop over the accounts and Goal.countDocuments; after
\* the last account the script logs "Setup complete" (code 200 stands for it)
SeedCount(r) ==
    /\ req[r].op = "seed" /\ req[r].pc = "s_count"
    /\ LET loc == req[r].loc
       IN IF loc.i > Len(loc.accounts)
          THEN req' = [req EXCEPT ![r] = Idle(Res(200, "Setup complete"))]
          ELSE IF CountDocuments(goals, loc.accounts[loc.i].id) = 0
          THEN req' = Reading(r, "s_save", loc)
          ELSE req' = Reading(r, "s_count",
                              [loc EXCEPT !.i = @ + 1, !.skipped = @ + 1])
    /\ UNCHANGED <<accounts, txs, cats, goals, nextTx, nextGoal, nops, hist>>

\* new Goal({user_id, title: 'Dana Darurat', target_amount, saved_amount: 0}).save()
SeedSave(r) ==
    /\ req[r].op = "seed" /\ req[r].pc = "s_save"
    /\ nextGoal \in GoalIds
    /\ LET loc == req[r].loc
           account == loc.accounts[loc.i]
           goal == [ex |-> TRUE, user_id |-> account.id, title |-> "Dana Darurat",
                    target_amount |-> SuggestedTarget(account.balance),
                    saved_amount |-> 0, status |-> "active"]
       IN /\ goals' = [goals EXCEPT ![nextGoal] = PreSave(goal)]
          /\ req' = Reading(r, "s_count",
                            [loc EXCEPT !.i = @ + 1, !.created = @ + 1])
    /\ nextGoal' = nextGoal + 1
    /\ UNCHANGED <<accounts, txs, cats, nextTx, nops, hist>>

(* ----------------------- category and account CRUD -------------------- *)

\* the open units see that the documents of keys changed under them
Stale(keys) ==
    [o \in Slots |->
        IF req[o].snap THEN [req[o] EXCEPT !.stale = @ \cup keys] ELSE req[o]]

\* what hist keeps of a manual category request: whether the triple it
\* asked for was taken, and the status it was answered with
Asked(dup, code) == [kind |-> "category", dup |-> dup, code |-> code]

CategoryNames == {"food", "rent"}

\* createCategory: new Category({user_id, name, type, balance || 0}).save()
CreateCategory(userId, name, type, balance) ==
    /\ nops < MaxOps
    /\ nops' = nops + 1
    /\ Free(KC(<<userId, name, type>>))
    /\ IF type \notin Types
       THEN /\ hist' = Asked(FALSE, 400)
            /\ UNCHANGED <<cats, req>>
       ELSE IF DuplicateKey(cats, <<userId, name, type>>)
       THEN /\ hist' = Asked(TRUE, 400)
            /\ UNCHANGED <<cats, req>>
       ELSE /\ cats' = [cats EXCEPT ![<<userId, name, type>>] =
                          Inserted(@, IF balance # << >> THEN balance[1] ELSE 0)]
            /\ req' = Stale({KC(<<userId, name, type>>)})
            /\ hist' = Asked(cats[<<userId, name, type>>].ex, 201)
    /\ UNCHANGED <<accounts, txs, goals, nextTx, nextGoal>>

\* the bodies a category update may carry: a new name, a new balance
CategoryBodies == [name : Opt(CategoryNames), balance : Opt(Nominals)]

\* the document of k after Category.findByIdAndUpdate(id, req.body) moved it
\* to triple k2
Renamed(k, k2, body) ==
    [ex |-> TRUE,
     balance |-> IF body.balance # << >> THEN body.balance[1] ELSE cats[k].balance,
     copies |-> IF k2 = k THEN cats[k].copies ELSE cats[k2].copies + 1]

\* updateCategory: Category.findByIdAndUpdate(req.params.id, req.body, {new: true})
UpdateCategory(k, body) ==
    LET k2 == <<k[1], IF body.name # << >> THEN body.name[1] ELSE k[2], k[3]>>
    IN /\ nops < MaxOps
       /\ nops' = nops + 1
       /\ Free(KC(k)) /\ Free(KC(k2))
       /\ IF ~cats[k].ex
          THEN /\ hist' = Asked(FALSE, 404)
               /\ UNCHANGED <<cats, req>>
          ELSE IF k2 # k /\ DuplicateKey(cats, k2)
          THEN /\ hist' = Asked(TRUE, 400)
               /\ UNCHANGED <<cats, req>>
          ELSE /\ cats' = [c \in CatKeys |->
                             IF c = k2 THEN Renamed(k, k2, body)
                             ELSE IF c = k THEN NoCategory
                             ELSE cats[c]]
               /\ req' = Stale({KC(k), KC(k2)})
               /\ hist' = Asked(k2 # k /\ cats[k2].ex, 200)
       /\ UNCHANGED <<accounts, txs, goals, nextTx, nextGoal>>

\* deleteCategory: Category.findByIdAndDelete(req.params.id)
DeleteCategory(k) ==
    /\ nops < MaxOps
    /\ nops' = nops + 1
    /\ Free(KC(k))
    /\ IF cats[k].ex
       THEN /\ cats' = [cats EXCEPT ![k] = NoCategory]
            /\ req' = Stale({KC(k)})
            /\ hist' = Asked(FALSE, 200)
       ELSE /\ hist' = Asked(FALSE, 404)
            /\ UNCHANGED <<cats, req>>
    /\ UNCHANGED <<accounts, txs, goals, nextTx, nextGoal>>

\* updateAccount: Account.findByIdAndUpdate(req.params.id, req.body, {new: true});
\* of the body, the model keeps the balance
UpdateAccount(a, balance) ==
    /\ nops < MaxOps
    /\ nops' = nops + 1
    /\ Free(KA(a))
    /\ IF accounts[a].ex /\ balance # << >>
       THEN /\ accounts' = [accounts EXCEPT ![a].balance = balance[1]]
            /\ req' = Stale({KA(a)})
       ELSE UNCHANGED <<accounts, req>>
    /\ hist' = NoHist
    /\ UNCHANGED <<txs, cats, goals, nextTx, nextGoal>>

(* --------------------- generateCategoriesFromTags --------------------- *)

Carries(tx, tag) == \E i \in 1..Len(tx.tags) : tx.tags[i] = tag

\* the keys of tagData: the (tag, tipe) pairs of the transactions found
TagDataKeys(found, userId) ==
    { key \in CatNames \X TipeInputs :
        /\ ~IsBlank(key[1])
        /\ \E i \in TxIds : /\ found[i].ex /\ found[i].id_akun = userId
                            /\ found[i].tipe = key[2]
                            /\ Carries(found[i], key[1]) }

\* data.balance += transaction.nominal, over the first n transactions found
RECURSIVE TagDataBalance(_, _, _, _)
TagDataBalance(found, userId, key, n) ==
    IF n = 0 THEN 0
    ELSE TagDataBalance(found, userId, key, n - 1)
           + (IF /\ found[n].ex /\ found[n].id_akun = userId
                 /\ found[n].tipe = key[2] /\ Carries(found[n], key[1])
              THEN found[n].nominal ELSE 0)

\* mutant: the computed total is added to the balance of an existing category
RebuildSaveAdds(s, userId, existing, key, balance) ==
    LET k == <<userId, key[1], key[2]>>
    IN IF key[2] \notin Types THEN Throw(s)
       ELSE IF existing[k].ex
       THEN [s EXCEPT !.view.cats[k].balance = @ + balance,
                      !.wkeys = @ \cup {KC(k)}]
       ELSE [s EXCEPT !.view.cats[k] = Inserted(@, balance),
                      !.wkeys = @ \cup {KC(k)}]

\* one round of the loop over tagData: save the existing category with the
\* computed balance, or create the category; the unique index and the enum
\* of Category.type reject
RebuildSave(s, userId, existing, key, balance) ==
    LET k == <<userId, key[1], key[2]>>
    IN IF key[2] \notin Types THEN Throw(s)
       ELSE IF existing[k].ex
       THEN IF existing[k].balance = balance THEN s
            ELSE IF ~s.view.cats[k].ex THEN Throw(s)   \* DocumentNotFoundError
            ELSE [s EXCEPT !.view.cats[k].balance = balance,
                           !.wkeys = @ \cup {KC(k)}]
       ELSE IF DuplicateKey(s.view.cats, k) THEN Throw(s)
       ELSE [s EXCEPT !.view.cats[k] = Inserted(@, balance),
                      !.wkeys = @ \cup {KC(k)}]

RECURSIVE RebuildLoop(_, _, _, _, _)
RebuildLoop(s, userId, found, existing, keys) ==
    IF keys = {} \/ s.err THEN s
    ELSE LET key == CHOOSE key \in keys : TRUE
         IN RebuildLoop(RebuildSave(s, userId, existing, key,
                                    TagDataBalance(found, userId, key, MaxTx)),
                        userId, found, existing, keys \ {key})

\* request arrives; Transaction.find({id_akun: userId}), without the session.
\* Rebuilds are not counted in nops: they only bring categories to the totals
\* of the transactions there are
RebuildFindTransactions(r, userId) ==
    /\ req[r].op = "idle"
    /\ UNCHANGED nops
    /\ req' = [req EXCEPT ![r] =
                 Started("rebuild", "g_categories", [userId |-> userId],
                         [transactions |-> txs,
                          existingCategories |-> [k \in CatKeys |-> NoCategory]])]
    /\ UNCHANGED <<accounts, txs, cats, goals, nextTx, nextGoal, hist>>

\* Category.find({user_id: userId}), without the session
RebuildFindCategories(r) ==
    /\ req[r].op = "rebuild" /\ req[r].pc = "g_categories"
    /\ req' = Reading(r, "g_apply", [req[r].loc EXCEPT !.existingCategories = cats])
    /\ UNCHANGED <<accounts, txs, cats, goals, nextTx, nextGoal, nops, hist>>

RebuildApplied(r) ==
    LET userId == req[r].arg.userId
        found == req[r].loc.transactions
    IN RebuildLoop(Sess(r), userId, found, req[r].loc.existingCategories,
                   TagDataKeys(found, userId))

\* the saves of the loop over tagData, in the session
RebuildApply(r) ==
    /\ req[r].op = "rebuild" /\ req[r].pc = "g_apply"
    /\ LET s == RebuildApplied(r)
       IN IF s.err \/ WriteConflict(r, s)
          THEN req' = Ended(r, Res(500, "error"), {})
          ELSE req' = Going(r, "commit", s, req[r].loc)
    /\ UNCHANGED <<accounts, txs, cats, goals, nextTx, nextGoal, nops, hist>>

(* ------------------------- commit and failure ------------------------- *)

\* the response of a handler whose commit went through
Success(op) == IF op = "create" THEN Res(201, "ok") ELSE Res(200, "ok")

\* the response of a handler's catch block
Failure(op) ==
    IF op \in {"delete", "rebuild"} THEN Res(500, "error") ELSE Res(400, "error")

\* session.commitTransaction() and the response
Commit(r) ==
    /\ req[r].op # "idle"
    /\ req[r].pc = "commit"
    /\ LET new == Committed(Sess(r))
       IN /\ accounts' = new.accounts
          /\ txs' = new.txs
          /\ cats' = new.cats
          /\ goals' = new.goals
          /\ hist' \in Observe(req[r].op,
                               IF req[r].op = "rebuild" THEN req[r].arg.userId
                               ELSE req[r].arg.id,
                               new)
    /\ req' = IF req[r].op \in {"allocate", "withdraw"}
              THEN [Ended(r, NoRes, req[r].wkeys) EXCEPT
                      ![r].op = req[r].op, ![r].pc = "reread",
                      ![r].arg = req[r].arg]
              ELSE Ended(r, Success(req[r].op), req[r].wkeys)
    /\ UNCHANGED <<nextTx, nextGoal, nops>>

\* mutant: the catch block answers and the staged writes stay
FailKeepsWrites(r) ==
    /\ req[r].op # "idle"
    /\ req[r].pc # "reread"
    /\ LET new == Committed(Sess(r))
       IN /\ accounts' = new.accounts
          /\ txs' = new.txs
          /\ cats' = new.cats
          /\ goals' = new.goals
    /\ req' = [Ended(r, Failure(req[r].op), {}) EXCEPT
                  ![r].loc = [aborted |-> req[r].wkeys]]
    /\ UNCHANGED <<nextTx, nextGoal, nops, hist>>

\* an await of the handler throws (storage unavailable, commit failure): the
\* catch block aborts the unit and answers
Fail(r) ==
    /\ req[r].op # "idle"
    /\ req[r].pc # "reread"
    /\ req' = [Ended(r, Failure(req[r].op), {}) EXCEPT
                  ![r].loc = [aborted |-> req[r].wkeys]]
    /\ UNCHANGED <<accounts, txs, cats, goals, nextTx, nextGoal, nops, hist>>

\* Goal.findById(req.params.id) after the commit throws: the handler is
\* still inside its try, so the catch block runs session.abortTransaction()
\* on the session that committed and ended.  What the caller gets depends on
\* how the driver and the framework take that call: the 400 of the catch
\* block, the 500 of the error middleware, or no answer
RereadFails(r) ==
    /\ req[r].op \in {"allocate", "withdraw"}
    /\ req[r].pc = "reread"
    /\ \E res \in {Failure(req[r].op), Res(500, "An unexpected error occurred"), NoRes} :
          req' = [req EXCEPT ![r] = Idle(res)]
    /\ UNCHANGED <<accounts, txs, cats, goals, nextTx, nextGoal, nops, hist>>

(* --------------------------- specifications --------------------------- *)

\* slot 1 serves one request at a time
Alone(r) == r = 1 /\ \A o \in Slots : req[o].op = "idle"
Quiet == \A o \in Slots : req[o].op = "idle"

LedgerStart(r) ==
    \/ \E a \in AcctIds, t \in TipeInputs, n \in Nominals, tg \in TagChoices :
          CreateSave(r, a, t, n, tg)
    \/ \E id \in TxIds : UpdateFindTransaction(r, id)
    \/ \E id \in TxIds : DeleteFindTransaction(r, id)

LedgerStep(r) ==
    \/ CreateFindAccount(r)
    \/ CreateApply(r)
    \/ UpdateFindAccount(r)
    \/ \E body \in UpdateBodies : UpdateApply(r, body)
    \/ DeleteFindAccount(r)
    \/ DeleteApply(r)
    \/ Commit(r)

\* create, update and delete transaction, one request at a time
LedgerNext ==
    \/ \E r \in Slots : Alone(r) /\ LedgerStart(r)
    \/ \E r \in Slots : LedgerStep(r)

LedgerSpec == Init /\ [][LedgerNext]_vars

FundStart(r) ==
    \/ \E id \in GoalIds, n \in Nominals, ct \in BOOLEAN : AllocateFindGoal(r, id, n, ct)
    \/ \E id \in GoalIds, n \in Nominals, ct \in BOOLEAN : WithdrawFindGoal(r, id, n, ct)

FundStep(r) ==
    \/ AllocateApply(r)
    \/ WithdrawApply(r)
    \/ Commit(r)
    \/ Reread(r)

GoalCrud ==
    \/ \E a \in AcctIds, t \in Titles, n \in GoalAmounts, sv \in Opt(GoalAmounts) :
          CreateGoal(a, t, n, sv)
    \/ \E id \in GoalIds, body \in GoalBodies : UpdateGoal(id, body)

\* a transaction that carries a tag the fund movements use
SavingsStart(r) ==
    \E a \in AcctIds, t \in Types, n \in 1..MaxAmount :
        CreateSave(r, a, t, n, <<"savings">>)

\* goal create and update, allocate and withdraw, account deletion and the
\* creation of transactions tagged savings, one request at a time
GoalNext ==
    \/ \E r \in Slots : Alone(r) /\ (FundStart(r) \/ SavingsStart(r))
    \/ Quiet /\ GoalCrud
    \/ Quiet /\ \E a \in AcctIds : DeleteAccount(a)
    \/ \E r \in Slots : FundStep(r) \/ CreateFindAccount(r) \/ CreateApply(r)

GoalSpec == Init /\ [][GoalNext]_vars

RebuildStep(r) == RebuildFindCategories(r) \/ RebuildApply(r)

\* the account the concurrent requests meet on
SharedAccts == {1}

FaultStart(r) ==
    \/ \E a \in SharedAccts, t \in TipeInputs, n \in 1..MaxAmount,
          tg \in {<< >>, <<"food", "rent">>} :
          CreateSave(r, a, t, n, tg)
    \/ \E id \in TxIds : UpdateFindTransaction(r, id)
    \/ \E id \in TxIds : DeleteFindTransaction(r, id)
    \/ FundStart(r)

FaultStep(r) ==
    \/ CreateFindAccount(r)
    \/ CreateApply(r)
    \/ UpdateFindAccount(r)
    \/ \E body \in {b \in UpdateBodies : Cardinality(Given(b)) <= 1} :
          UpdateApply(r, body)
    \/ DeleteFindAccount(r)
    \/ DeleteApply(r)
    \/ FundStep(r)
    \/ RebuildStep(r)

\* every unit of work, one request at a time, where any await may throw
FaultNext ==
    \/ \E r \in Slots : Alone(r) /\ FaultStart(r)
    \/ \E r \in Slots, a \in AcctIds : Alone(r) /\ RebuildFindTransactions(r, a)
    \/ Quiet /\ \E a \in AcctIds, t \in Titles, n \in 1..MaxAmount :
                   CreateGoal(a, t, n, << >>)
    \/ \E r \in Slots : FaultStep(r)
    \/ \E r \in Slots : Fail(r)
    \/ \E r \in Slots : RereadFails(r)

FaultSpec == Init /\ [][FaultNext]_vars

\* request bodies under which every serial execution conserves the balances
ConservingBodies ==
    {body \in UpdateBodies :
        /\ Given(body) \in {{"nominal"}, {"tags"}}
        /\ body.nominal # <<0>>
        /\ body.tags \in {<< >>, << <<"food">> >>}}

ConcStart(r) ==
    \/ \E a \in SharedAccts, t \in Types, n \in 1..MaxAmount,
          tg \in {<< >>, <<"food">>} :
          CreateSave(r, a, t, n, tg)
    \/ \E id \in TxIds : UpdateFindTransaction(r, id)
    \/ \E id \in TxIds : DeleteFindTransaction(r, id)
    \/ FundStart(r)

ConcStep(r) ==
    \/ CreateFindAccount(r)
    \/ CreateApply(r)
    \/ UpdateFindAccount(r)
    \/ \E body \in ConservingBodies : UpdateApply(r, body)
    \/ DeleteFindAccount(r)
    \/ DeleteApply(r)
    \/ FundStep(r)

ConcGoals ==
    \E a \in SharedAccts, t \in Titles, n \in 1..MaxAmount, sv \in Opt(GoalAmounts) :
        CreateGoal(a, t, n, sv)

\* two requests in flight, their awaits interleaved
ConcNext ==
    \/ \E r \in Slots : ConcStart(r)
    \/ ConcGoals
    \/ \E r \in Slots : ConcStep(r)

ConcSpec == Init /\ [][ConcNext]_vars

\* the requests of ConcSpec, served one at a time
SerialNext ==
    \/ \E r \in Slots : Alone(r) /\ ConcStart(r)
    \/ Quiet /\ ConcGoals
    \/ \E r \in Slots : ConcStep(r)

SerialSpec == Init /\ [][SerialNext]_vars

\* the categories a manual request may name
ManualKeys == {k \in CatKeys : k[1] \in SharedAccts /\ k[2] \in CategoryNames}

CategoryCrud ==
    \/ \E a \in SharedAccts, n \in CategoryNames, t \in TipeInputs,
          b \in Opt(Nominals) : CreateCategory(a, n, t, b)
    \/ \E k \in ManualKeys, body \in CategoryBodies : UpdateCategory(k, body)
    \/ \E k \in ManualKeys : DeleteCategory(k)

TaggedStart(r) ==
    \/ \E a \in SharedAccts, t \in Types, n \in 1..MaxAmount,
          tg \in {<<"food">>, <<"food", "rent">>} :
          CreateSave(r, a, t, n, tg)
    \/ \E id \in TxIds : UpdateFindTransaction(r, id)
    \/ \E id \in TxIds : DeleteFindTransaction(r, id)
    \/ \E a \in SharedAccts : RebuildFindTransactions(r, a)

TaggedStep(r) ==
    \/ CreateFindAccount(r)
    \/ CreateApply(r)
    \/ UpdateFindAccount(r)
    \/ \E body \in ConservingBodies : UpdateApply(r, body)
    \/ DeleteFindAccount(r)
    \/ DeleteApply(r)
    \/ RebuildStep(r)
    \/ Commit(r)

\* transactions, rebuilds and the manual requests on categories and
\* accounts, one request at a time
AdminNext ==
    \/ \E r \in Slots : Alone(r) /\ TaggedStart(r)
    \/ Quiet /\ CategoryCrud
    \/ Quiet /\ \E a \in AcctIds, b \in Opt(Nominals) : UpdateAccount(a, b)
    \/ \E r \in Slots : TaggedStep(r)

AdminSpec == Init /\ [][AdminNext]_vars

\* transactions, rebuilds and manual category requests, two requests in
\* flight and the manual requests between their awaits
CatNext ==
    \/ \E r \in Slots, a \in SharedAccts, t \in Types :
          CreateSave(r, a, t, MaxAmount, <<"food">>)
    \/ \E r \in Slots, a \in SharedAccts : RebuildFindTransactions(r, a)
    \/ \E a \in SharedAccts, n \in CategoryNames, t \in Types :
          CreateCategory(a, n, t, << >>)
    \/ \E k \in ManualKeys, body \in CategoryBodies :
          body.balance = << >> /\ UpdateCategory(k, body)
    \/ \E k \in ManualKeys : DeleteCategory(k)
    \/ \E r \in Slots :
          CreateFindAccount(r) \/ CreateApply(r) \/ RebuildStep(r) \/ Commit(r)

CatSpec == Init /\ [][CatNext]_vars

OrphanStart(r) ==
    \/ \E a \in AcctIds, t \in Types, n \in 1..MaxAmount, tg \in {<< >>, <<"food">>} :
          CreateSave(r, a, t, n, tg)
    \/ \E id \in TxIds : UpdateFindTransaction(r, id)
    \/ \E id \in TxIds : DeleteFindTransaction(r, id)

\* create, update and delete transaction, one request at a time, while
\* accounts are deleted between their awaits
OrphanNext ==
    \/ \E r \in Slots : Alone(r) /\ OrphanStart(r)
    \/ \E a \in AcctIds : DeleteAccount(a)
    \/ \E r \in Slots : LedgerStep(r)

OrphanSpec == Init /\ [][OrphanNext]_vars

AggStart(r) ==
    \/ \E a \in SharedAccts, t \in Types, n \in Nominals, tg \in TagChoices :
          CreateSave(r, a, t, n, tg)
    \/ \E id \in TxIds : UpdateFindTransaction(r, id)
    \/ \E id \in TxIds : DeleteFindTransaction(r, id)
    \/ \E a \in AcctIds : RebuildFindTransactions(r, a)

AggStep(r) ==
    \/ CreateFindAccount(r)
    \/ CreateApply(r)
    \/ UpdateFindAccount(r)
    \/ \E body \in {b \in UpdateBodies : Cardinality(Given(b)) <= 1} :
          UpdateApply(r, body)
    \/ DeleteFindAccount(r)
    \/ DeleteApply(r)
    \/ RebuildStep(r)
    \/ Commit(r)

\* create, update and delete transaction and rebuilds, one request at a
\* time, from accounts without transactions and categories
AggNext ==
    \/ \E r \in Slots : Alone(r) /\ AggStart(r)
    \/ \E r \in Slots : AggStep(r)

AggSpec == Init /\ [][AggNext]_vars

\* runs of the provisioning script, any await of which may throw, with
\* goals created and accounts deleted between the runs
SeedNext ==
    \/ \E r \in Slots : Alone(r) /\ SeedFind(r)
    \/ Quiet /\ \E a \in AcctIds, t \in Titles, n \in 1..MaxAmount :
                   CreateGoal(a, t, n, << >>)
    \/ Quiet /\ \E a \in AcctIds : DeleteAccount(a)
    \/ \E r \in Slots : SeedCount(r) \/ SeedSave(r)
    \/ \E r \in Slots : Fail(r)

SeedSpec == Init /\ [][SeedNext]_vars

PruneStart(r) ==
    \/ \E a \in SharedAccts, t \in Types, n \in 1..MaxAmount,
          tg \in {<<"food">>, <<"food", "rent">>} :
          CreateSave(r, a, t, n, tg)
    \/ \E id \in TxIds : UpdateFindTransaction(r, id)
    \/ \E id \in TxIds : DeleteFindTransaction(r, id)

PruneStep(r) ==
    \/ CreateFindAccount(r)
    \/ CreateApply(r)
    \/ UpdateFindAccount(r)
    \/ \E body \in ConservingBodies : UpdateApply(r, body)
    \/ DeleteFindAccount(r)
    \/ DeleteApply(r)
    \/ Commit(r)

\* create, update and delete of transactions with positive amounts, one
\* request at a time, and manual deletions of categories between their awaits
PruneNext ==
    \/ \E r \in Slots : Alone(r) /\ PruneStart(r)
    \/ \E k \in ManualKeys : DeleteCategory(k)
    \/ \E r \in Slots : PruneStep(r)

PruneSpec == Init /\ [][PruneNext]_vars

(* ------------------------------- claims ------------------------------- *)

\* what a transaction adds to the balance of its account
SignedAmount(tx) == Credit(0, tx.tipe, tx.nominal)

RECURSIVE SignedSumUpTo(_, _)
SignedSumUpTo(a, n) ==
    IF n = 0 THEN 0
    ELSE SignedSumUpTo(a, n - 1)
           + (IF txs[n].ex /\ txs[n].id_akun = a THEN SignedAmount(txs[n]) ELSE 0)

\* signed sum of the current transactions of account a
SignedSum(a) == SignedSumUpTo(a, MaxTx)

RECURSIVE TagSumUpTo(_, _)
TagSumUpTo(k, n) ==
    IF n = 0 THEN 0
    ELSE TagSumUpTo(k, n - 1)
           + (IF /\ txs[n].ex /\ txs[n].id_akun = k[1] /\ txs[n].tipe = k[3]
                 /\ Carries(txs[n], k[2])
              THEN txs[n].nominal ELSE 0)

\* sum of the amounts of the current transactions of account k[1] that carry
\* tag k[2] and have kind k[3]
TagSum(k) == TagSumUpTo(k, MaxTx)

\* C1: balance conservation.  In every committed state reached by create,
\* update and delete transaction requests, served one at a time from accounts
\* with balance 0 and no transactions, the balance of every account equals
\* the signed sum of its current transactions.
C1_BalanceConservation ==
    \A a \in AcctIds : accounts[a].ex => accounts[a].balance = SignedSum(a)

\* C2: category totals match tags.  In every committed state every existing
\* Category (account, tag, kind) has as balance the sum of the amounts of the
\* account's current transactions that carry the tag and have the kind.
C2_CategoryTotalsMatchTags ==
    \A k \in CatKeys : cats[k].ex => cats[k].balance = TagSum(k)

\* request r commits its update in this step
UpdateCommits(r) ==
    /\ req[r].op = "update" /\ req[r].pc = "commit"
    /\ req'[r].op = "idle" /\ req'[r].res.code = 200

\* the step leaves kind and amount of transaction id as they were
KeepsKindAmount(id) ==
    /\ txs'[id].ex
    /\ txs'[id].tipe = txs[id].tipe
    /\ txs'[id].nominal = txs[id].nominal

BalancesUnchanged == \A a \in AcctIds : accounts'[a] = accounts[a]

\* C5 as stated: an update that leaves kind and amount of the transaction
\* identical leaves the account balance and all category balances of the
\* account unchanged.
C5_UpdateIdempotence_AsStated ==
    [][\A r \in Slots :
         UpdateCommits(r) /\ KeepsKindAmount(req[r].arg.id)
            => /\ BalancesUnchanged
               /\ \A k \in CatKeys :
                     k[1] = txs[req[r].arg.id].id_akun
                        => CatBal(cats'[k]) = CatBal(cats[k])]_vars

\* C5 amended: an update that leaves kind and amount of the transaction
\* identical leaves every account balance unchanged, and leaves every
\* category balance unchanged when it also leaves the tags and the owning
\* account of the transaction identical.
C5_UpdateIdempotence ==
    [][\A r \in Slots :
         UpdateCommits(r) /\ KeepsKindAmount(req[r].arg.id)
            => /\ BalancesUnchanged
               /\ (/\ txs'[req[r].arg.id].tags = txs[req[r].arg.id].tags
                   /\ txs'[req[r].arg.id].id_akun = txs[req[r].arg.id].id_akun)
                     => \A k \in CatKeys : CatBal(cats'[k]) = CatBal(cats[k])]_vars

\* an update that names kind and amount as they are stored, of a transaction
\* with a positive amount and a category, has staged its writes and commits next
C5_Witness ==
    \E r \in Slots :
        /\ req[r].op = "update" /\ req[r].pc = "commit"
        /\ req[r].arg.body.tipe = <<txs[req[r].arg.id].tipe>>
        /\ req[r].arg.body.nominal = <<txs[req[r].arg.id].nominal>>
        /\ txs[req[r].arg.id].nominal > 0
        /\ TouchedKeys(txs[req[r].arg.id]) # {}
        /\ req[r].view.txs[req[r].arg.id].tags = txs[req[r].arg.id].tags
        /\ KA(txs[req[r].arg.id].id_akun) \in req[r].wkeys

WithdrawsTooMuch(r) ==
    /\ req[r].op = "withdraw" /\ req[r].pc = "w_apply"
    /\ req'[r] # req[r]
    /\ goals[req[r].arg.id].ex
    /\ req[r].arg.amount > goals[req[r].arg.id].saved_amount

\* C8: a withdraw whose amount exceeds the goal's saved_amount is answered
\* 400 with available equal to the saved_amount, and the goals, accounts,
\* transactions and categories stay as they are, whether or not a transaction
\* record was requested.
C8_InsufficientFunds ==
    [][\A r \in Slots :
         WithdrawsTooMuch(r)
            => /\ req'[r].op = "idle"
               /\ req'[r].res = [code |-> 400,
                                 available |-> <<goals[req[r].arg.id].saved_amount>>]
               /\ UNCHANGED <<accounts, txs, cats, goals, nextTx>>]_vars

\* a withdraw was refused with a positive available amount reported
C8_Witness ==
    \E r \in Slots :
        /\ req[r].op = "idle"
        /\ req[r].res.code = 400
        /\ req[r].res.available # << >>
        /\ req[r].res.available[1] > 0
        /\ \E g \in GoalIds : goals[g].ex /\ goals[g].saved_amount = req[r].res.available[1]

\* C9: goal auto-completion.  In every persisted state a goal with
\* saved_amount >= target_amount has status completed and a progress of at
\* most 100.
C9_GoalAutoCompletion ==
    \A g \in GoalIds :
        goals[g].ex /\ goals[g].saved_amount >= goals[g].target_amount
           => goals[g].status = "completed" /\ Progress(goals[g]) <= 100

\* request r, a fund movement op with a transaction record, commits in this step
FundCommits(r, op) ==
    /\ req[r].op = op /\ req[r].pc = "commit"
    /\ req[r].arg.create_transaction
    /\ req'[r].pc = "reread"

NewTxs == {i \in TxIds : ~txs[i].ex /\ txs'[i].ex}

\* the step moves amount between the goal of r and its account (sign 1: into
\* the goal) and records it as one transaction of kind tipe
Moved(r, tipe, sign) ==
    LET a == req[r].arg
        u == goals[a.id].user_id
    IN /\ goals'[a.id].saved_amount = goals[a.id].saved_amount + sign * a.amount
       /\ accounts[u].ex
             => accounts'[u].balance = accounts[u].balance - sign * a.amount
       /\ \A o \in AcctIds \ {u} : accounts'[o] = accounts[o]
       /\ Cardinality(NewTxs) = 1
       /\ \A i \in NewTxs : /\ txs'[i].tipe = tipe
                            /\ txs'[i].nominal = a.amount
                            /\ txs'[i].id_akun = u
       /\ \A i \in TxIds \ NewTxs : txs'[i] = txs[i]

\* request r passes the checks of its fund movement in this step
FundApplies(r) ==
    /\ req'[r] # req[r]
    /\ req[r].pc \in {"a_apply", "w_apply"}
    /\ goals[req[r].arg.id].ex
    /\ req[r].arg.amount > 0
    /\ req[r].op = "withdraw"
          => req[r].arg.amount <= goals[req[r].arg.id].saved_amount

\* C10: allocate and withdraw with a transaction record move the funds in
\* one unit.  An allocate of amount > 0 reaches its commit, and the commit
\* adds amount to saved_amount, takes amount from the balance of the owning
\* account (when that account exists) and creates exactly one expense
\* transaction of that amount; a withdraw with 0 < amount <= saved_amount
\* reaches its commit, and the commit takes amount from saved_amount, adds it
\* to the balance and creates exactly one income transaction of that amount.
C10_FundsMoveInOneUnit ==
    [][\A r \in Slots :
         /\ FundApplies(r) => req'[r].pc = "commit"
         /\ FundCommits(r, "allocate") => Moved(r, "expense", 1)
         /\ FundCommits(r, "withdraw") => Moved(r, "income", 0 - 1)]_vars

\* a withdraw with a transaction record has committed: the goal was funded
\* before, the account holds the amount, and the income transaction exists
C10_Witness ==
    \E r \in Slots :
        /\ req[r].op = "withdraw" /\ req[r].pc = "reread"
        /\ req[r].arg.create_transaction
        /\ \E i \in TxIds :
              /\ txs[i].ex /\ txs[i].tipe = "income"
              /\ txs[i].nominal = req[r].arg.amount
              /\ accounts[txs[i].id_akun].ex
              /\ txs[i].tags = <<"goal", "withdrawal", "dana-darurat">>

\* request r ends in this step with an error response
EndsInError(r) ==
    /\ req[r].op # "idle"
    /\ req'[r].op = "idle"
    /\ req'[r].res.code >= 400

\* request r commits in this step
Commits(r) ==
    /\ req[r].op # "idle" /\ req[r].pc = "commit"
    /\ req'[r].pc \in {"idle", "reread"}
    /\ req'[r].res.code < 400

\* every write of the unit of r is in the next state
AllWrites(r) ==
    LET a == req[r].arg
    IN CASE req[r].op = "create" ->
              /\ txs'[a.id] = NewTransaction(a.id_akun, a.tipe, a.nominal, a.tags)
              /\ accounts'[a.id_akun].balance
                    = Credit(accounts[a.id_akun].balance, a.tipe, a.nominal)
              /\ \A k \in TouchedKeys(txs'[a.id]) :
                    /\ cats'[k].ex
                    /\ cats'[k].balance = CatBal(cats[k]) + a.nominal
         [] req[r].op = "update" ->
              /\ txs'[a.id] = Merge(txs[a.id], a.body)
              /\ accounts'[txs[a.id].id_akun].balance
                    = UpdatedBalance(accounts[txs[a.id].id_akun].balance,
                                     txs[a.id], a.body)
         [] req[r].op = "delete" ->
              /\ ~txs'[a.id].ex
              /\ accounts'[txs[a.id].id_akun].balance
                    = Debit(accounts[txs[a.id].id_akun].balance,
                            txs[a.id].tipe, txs[a.id].nominal)
              /\ \A k \in TouchedKeys(txs[a.id]) :
                    CatBal(cats'[k]) = CatBal(cats[k]) - txs[a.id].nominal
         [] req[r].op \in {"allocate", "withdraw"} ->
              /\ goals'[a.id].saved_amount # goals[a.id].saved_amount
              /\ a.create_transaction
                    => /\ Cardinality(NewTxs) = 1
                       /\ accounts[goals[a.id].user_id].ex
                             => accounts'[goals[a.id].user_id].balance
                                   # accounts[goals[a.id].user_id].balance
         [] req[r].op = "rebuild" ->
              \A key \in TagDataKeys(txs, a.userId) :
                  cats'[<<a.userId, key[1], key[2]>>] =
                      [ex |-> TRUE,
                       balance |-> TagDataBalance(txs, a.userId, key, MaxTx),
                       copies |-> 1]

\* C3: all-or-nothing unit of work.  A request of create, update or delete
\* transaction, allocate or withdraw funds, or rebuild categories that ends
\* with an error, at whichever await the failure strikes, leaves every
\* account, transaction, category and goal as it was; the documents change
\* only in the step in which a unit commits, and then every write of the unit
\* is there together.
C3_AllOrNothing ==
    [][/\ \A r \in Slots : EndsInError(r) => db' = db
       /\ \A r \in Slots : req[r].op # "idle" /\ db' # db => Commits(r)
       /\ \A r \in Slots : Commits(r) => AllWrites(r)]_vars

\* a request was aborted after it had staged the transaction, the balance
\* and a category, and none of them is in the database
C3_Witness ==
    \E r \in Slots :
        /\ req[r].op = "idle"
        /\ req[r].res.code >= 400
        /\ \E i \in TxIds :
              /\ KT(i) \in req[r].loc.aborted
              /\ ~txs[i].ex
        /\ \E a \in AcctIds :
              /\ KA(a) \in req[r].loc.aborted
              /\ accounts[a].balance = 0
        /\ \E k \in CatKeys :
              /\ KC(k) \in req[r].loc.aborted
              /\ ~cats[k].ex

\* C4: concurrent operations serialize.  Every serial execution of create,
\* update and delete transaction and allocate and withdraw requests that
\* carry positive amounts leaves each account with the signed sum of its
\* transactions as balance, so a state in which no request is in flight, and
\* which the requests reached with their steps interleaved, has that balance
\* too: no committed balance was overwritten.
C4_NoLostUpdate ==
    Quiet => \A a \in AcctIds :
                accounts[a].ex => accounts[a].balance = SignedSum(a)

\* C7: goal bounds.  In every reachable state, whatever the interleaving of
\* the allocate and withdraw requests, the saved_amount of every goal is at
\* least 0.
C7_GoalBounds ==
    \A g \in GoalIds : goals[g].ex => goals[g].saved_amount >= 0

\* a withdraw emptied the goal while another fund movement was in flight
C7_Witness ==
    \E r \in Slots, o \in Slots :
        /\ r # o
        /\ req[r].op = "withdraw" /\ req[r].pc = "reread"
        /\ goals[req[r].arg.id].ex
        /\ goals[req[r].arg.id].saved_amount = 0
        /\ req[o].op \in {"allocate", "withdraw"}
        /\ req[o].pc \in {"a_apply", "w_apply"}

\* C11: rebuild idempotence.  When the rebuild of an account commits twice
\* in a row, no transaction and no category having changed in between, the
\* categories after the second run are the categories the first run left.
C11_RebuildIdempotence ==
    hist.kind = "rebuilt2" => \A k \in CatKeys : cats[k] = hist.cat[k]

\* a rebuild that wrote a category was followed by a second rebuild of the
\* account, which holds a category with a positive balance
C11_Witness ==
    /\ hist.kind = "rebuilt2"
    /\ hist.wrote
    /\ \E k \in CatKeys : k[1] = hist.id /\ cats[k].ex /\ cats[k].balance > 0

\* C12: rebuild correctness.  After a rebuild of an account committed, from
\* whatever categories it started, every category of the account has as
\* balance the sum of the amounts of the account's current transactions that
\* carry its tag and have its kind.
C12_RebuildCorrectness ==
    [][\A r \in Slots :
         Commits(r) /\ req[r].op = "rebuild"
            => \A k \in CatKeys :
                  k[1] = req[r].arg.userId /\ cats'[k].ex
                     => cats'[k].balance = TagSum(k)]_vars

\* no triple (account, tag name, kind) has two category documents
UniqueCategories == \A k \in CatKeys : cats[k].copies <= 1

\* C13: category natural-key uniqueness.  Under any interleaving of
\* transaction units, rebuilds and manual category requests no two category
\* documents share their (account, tag name, kind), and a manual create or
\* rename that asks for a triple that is taken is answered with the error of
\* the duplicate and leaves the categories as they were.
C13_CategoryKeyUnique ==
    /\ []UniqueCategories
    /\ [][hist'.kind = "category" /\ nops' = nops + 1 /\ hist'.dup
             => hist'.code = 400 /\ cats' = cats]_vars

\* a manual request for a taken triple was refused while a unit was in flight
C13_Witness ==
    /\ hist.kind = "category"
    /\ hist.dup
    /\ hist.code = 400
    /\ \E r \in Slots : req[r].op # "idle" /\ req[r].wkeys # {}
    /\ \E k \in CatKeys : cats[k].ex

\* C14: create transaction validation.  No create request whose amount is
\* not > 0 or whose kind is not income or expense commits: it fails, and
\* balances, transactions and categories stay as they are.
C14_CreateValidation ==
    [][\A r \in Slots :
         Commits(r) /\ req[r].op = "create"
            => req[r].arg.nominal > 0 /\ req[r].arg.tipe \in Types]_vars

LedgerOps == {"create", "update", "delete", "allocate", "withdraw"}

\* C15: the balance of an account changes only in the commit of a create,
\* update or delete transaction or of an allocate or withdraw; every other
\* operation, the account update among them, leaves every balance as it is.
C15_BalanceOnlyByLedger ==
    [][\A a \in AcctIds :
         (/\ accounts[a].ex /\ accounts'[a].ex
          /\ accounts'[a].balance # accounts[a].balance)
            => \E r \in Slots : Commits(r) /\ req[r].op \in LedgerOps]_vars

\* C16: the saved_amount of a goal is 0 after its creation and changes only
\* in the commit of an allocate or a withdraw; the goal update leaves it.
C16_SavedOnlyByFunds ==
    [][\A g \in GoalIds :
         /\ (~goals[g].ex /\ goals'[g].ex) => goals'[g].saved_amount = 0
         /\ (/\ goals[g].ex /\ goals'[g].ex
             /\ goals'[g].saved_amount # goals[g].saved_amount)
               => \E r \in Slots :
                     Commits(r) /\ req[r].op \in {"allocate", "withdraw"}]_vars

\* the commit of r adds amount to every category its recorded transaction names
CategoriesFollow(r) ==
    \A i \in NewTxs :
        \A k \in TouchedKeys(txs'[i]) :
            /\ cats'[k].ex
            /\ cats'[k].balance = CatBal(cats[k]) + req[r].arg.amount

\* C17: an allocate with a transaction record finds or creates, for every
\* non-blank tag of the recorded expense, the category (account, tag,
\* expense) and adds the amount to it in the same unit; a withdraw with a
\* record does so for the (account, tag, income) categories.
C17_FundCategoryEffects ==
    [][\A r \in Slots :
         FundCommits(r, "allocate") \/ FundCommits(r, "withdraw")
            => CategoriesFollow(r)]_vars

\* C18: an allocate or withdraw with a transaction record on a goal whose
\* owning account does not exist does not commit: no record is persisted
\* and saved_amount stays.
C18_MissingAccountFails ==
    [][\A r \in Slots :
         FundCommits(r, "allocate") \/ FundCommits(r, "withdraw")
            => accounts[goals[req[r].arg.id].user_id].ex]_vars

\* C19: the commit of an update moves the balance of the account that owned
\* the transaction by the signed amount of the transaction as stored after
\* the update minus its signed amount as stored before.
C19_UpdateDelta ==
    [][\A r \in Slots :
         UpdateCommits(r) /\ txs[req[r].arg.id].ex /\ txs'[req[r].arg.id].ex
            => accounts'[txs[req[r].arg.id].id_akun].balance
                  - accounts[txs[req[r].arg.id].id_akun].balance
               = SignedAmount(txs'[req[r].arg.id])
                  - SignedAmount(txs[req[r].arg.id])]_vars

\* C20: every stored transaction has an amount > 0 and a kind in
\* {income, expense}.
C20_StoredTransactionsValid ==
    \A i \in TxIds : txs[i].ex => txs[i].nominal > 0 /\ txs[i].tipe \in Types

\* the account request r looks up
Looked(r) ==
    IF req[r].op = "create" THEN req[r].arg.id_akun ELSE req[r].loc.orig.id_akun

\* request r makes its account lookup in this step and the account is missing
MissesAccount(r) ==
    /\ req[r].pc \in {"c_account", "u_account", "d_account"}
    /\ req'[r].pc # req[r].pc
    /\ ~accounts[Looked(r)].ex

\* C21: not-found handling.  A create, update or delete transaction request
\* whose account lookup finds no account is answered 404 and leaves every
\* account, transaction, category and goal as it was, the transaction that
\* create saved before the lookup included; no update or delete goes on
\* past the lookup of a transaction that does not exist; and a request that
\* is answered 404 has changed nothing.
C21_NotFound ==
    [][\A r \in Slots :
         /\ MissesAccount(r)
               => /\ req'[r].op = "idle"
                  /\ req'[r].res.code = 404
                  /\ db' = db
                  /\ req[r].op = "create" => ~txs'[req[r].arg.id].ex
         /\ (req[r].op = "idle" /\ req'[r].op \in {"update", "delete"})
               => txs[req'[r].arg.id].ex
         /\ (/\ req'[r].op = "idle" /\ req'[r].res.code = 404
             /\ req'[r].res # req[r].res)
               => db' = db]_vars

\* a create for a deleted account was answered 404 and the transaction it
\* had saved is not there, while another transaction is
C21_Witness ==
    \E r \in Slots :
        /\ req[r].op = "idle"
        /\ req[r].res.code = 404
        /\ nextTx = 3
        /\ txs[1].ex /\ ~txs[2].ex
        /\ \E a \in AcctIds : ~accounts[a].ex

\* C22: completed is one-directional under fund movements.  The commit of
\* an allocate or a withdraw on a goal whose status is completed leaves the
\* status completed, also when the withdraw takes saved_amount below
\* target_amount.
C22_CompletedStays ==
    [][\A r \in Slots :
         (/\ Commits(r) /\ req[r].op \in {"allocate", "withdraw"}
          /\ goals[req[r].arg.id].status = "completed")
            => goals'[req[r].arg.id].status = "completed"]_vars

\* a withdraw committed on a completed goal and left it below its target
C22_Witness ==
    \E r \in Slots :
        /\ req[r].op = "withdraw" /\ req[r].pc = "reread"
        /\ goals[req[r].arg.id].status = "completed"
        /\ goals[req[r].arg.id].saved_amount < goals[req[r].arg.id].target_amount

\* C23: the derived values of a goal are bounded in every view that reports
\* them.  For every stored goal, the progress of the goal record and of the
\* goals summary is between 0 and 100, and the remaining amount of the goal
\* record and of the goals summary is max(target - saved, 0), never negative.
C23_DerivedBounded ==
    \A g \in GoalIds :
        goals[g].ex
           => /\ Progress(goals[g]) \in 0..100
              /\ SummaryProgress(goals[g]) \in 0..100
              /\ RemainingAmount(goals[g]) >= 0
              /\ SummaryRemaining(goals[g]) = RemainingAmount(goals[g])

\* tx carries several distinct non-blank tags
Several(tx) ==
    Cardinality({tx.tags[i] : i \in {j \in 1..Len(tx.tags) : ~IsBlank(tx.tags[j])}}) >= 2

\* what tx adds to the balance of category k, and to the balance of account a
Contribution(tx, k) == IF tx.ex /\ k \in TouchedKeys(tx) THEN tx.nominal ELSE 0
Share(tx, a) == IF tx.ex /\ tx.id_akun = a THEN SignedAmount(tx) ELSE 0

\* request r commits its create, update or delete of a transaction in this step
LedgerCommits(r) ==
    Commits(r) /\ req[r].op \in {"create", "update", "delete"}

\* C24: a transaction with several distinct non-blank tags contributes its
\* full amount to the category of each tag, and its signed amount once to
\* the balance of its account.  The commit of a create, update or delete of
\* such a transaction moves every category by what the transaction
\* contributes to it after the step minus what it contributed before, and
\* every account balance by the signed amount the transaction has for the
\* account after the step minus the one it had before.
C24_FullAmountPerTag ==
    [][\A r \in Slots :
         (/\ LedgerCommits(r)
          /\ Several(txs[req[r].arg.id]) \/ Several(txs'[req[r].arg.id]))
            => /\ \A k \in CatKeys :
                     CatBal(cats'[k]) - CatBal(cats[k])
                        = Contribution(txs'[req[r].arg.id], k)
                             - Contribution(txs[req[r].arg.id], k)
               /\ \A a \in AcctIds :
                     accounts'[a].balance - accounts[a].balance
                        = Share(txs'[req[r].arg.id], a)
                             - Share(txs[req[r].arg.id], a)]_vars

\* tx has no tag that names a category: no tags, or only blank ones
Blank(tx) == \A i \in 1..Len(tx.tags) : tx.tags[i] \in {"", " "}

\* C25: a transaction with zero tags or only blank tags contributes to no
\* category.  The commit of a create, update or delete of a transaction
\* that has no non-blank tag before and after the step, and the commit of a
\* rebuild of an account all of whose transactions have no non-blank tag,
\* create no category and change no category balance.
C25_BlankTagsNoCategory ==
    [][\A r \in Slots :
         /\ (/\ LedgerCommits(r)
             /\ Blank(txs[req[r].arg.id]) /\ Blank(txs'[req[r].arg.id]))
               => cats' = cats
         /\ (/\ Commits(r) /\ req[r].op = "rebuild"
             /\ \A i \in TxIds :
                   txs[i].ex /\ txs[i].id_akun = req[r].arg.userId => Blank(txs[i]))
               => cats' = cats]_vars

\* a rebuild committed for an account that holds a transaction with a
\* positive amount and a blank tag, and wrote nothing
C25_Witness ==
    /\ hist.kind = "rebuilt"
    /\ ~hist.wrote
    /\ \E i \in TxIds : /\ txs[i].ex /\ txs[i].id_akun = hist.id
                         /\ txs[i].tags = <<" ">> /\ txs[i].nominal > 0
    /\ \A k \in CatKeys : ~cats[k].ex

\* no transaction but id contributes to category k
Sole(id, k) == \A j \in TxIds \ {id} : Contribution(txs[j], k) = 0

C27_PlainFundsOnlyGoal ==
    [][\A r \in Slots :
         (/\ Commits(r) /\ req[r].op \in {"allocate", "withdraw"}
          /\ ~req[r].arg.create_transaction)
            => /\ accounts' = accounts
               /\ txs' = txs
               /\ cats' = cats
               /\ \A g \in GoalIds \ {req[r].arg.id} : goals'[g] = goals[g]
               /\ goals'[req[r].arg.id] =
                     [goals[req[r].arg.id] EXCEPT
                        !.saved_amount = goals'[req[r].arg.id].saved_amount,
                        !.status = goals'[req[r].arg.id].status]]_vars

\* an allocate without a record committed: the goal holds the amount, the
\* account that owns it exists, and there is no transaction
C27_Witness ==
    \E r \in Slots :
        /\ req[r].op = "allocate" /\ req[r].pc = "reread"
        /\ ~req[r].arg.create_transaction
        /\ goals[req[r].arg.id].saved_amount = req[r].arg.amount
        /\ accounts[goals[req[r].arg.id].user_id].ex
        /\ \A i \in TxIds : ~txs[i].ex

\* the script takes a step, or ends with "Setup complete", in this step
SeedSteps == \E r \in Slots : req[r].op = "seed" /\ req'[r] # req[r]
SeedCompletes ==
    \E r \in Slots :
        req[r].op = "seed" /\ req'[r].op = "idle" /\ req'[r].res.code = 200

\* C28: goal seeding is resumable and idempotent.  For every account, a
\* step of a run creates at most one goal, and creates one only when the
\* account has no goal; and when a run ends complete, every existing account
\* that had no goal when the run started has exactly one, and every account
\* that had goals has the goals it had.  So a second run, and a run resumed
\* after one that broke off, create nothing for an account that has goals.
C28_SeedingIdempotent ==
    [][/\ SeedSteps
          => \A a \in AcctIds :
                \/ CountDocuments(goals', a) = CountDocuments(goals, a)
                \/ /\ CountDocuments(goals, a) = 0
                   /\ CountDocuments(goals', a) = 1
       /\ SeedCompletes
          => \A a \in AcctIds :
                /\ accounts[a].ex /\ CountDocuments(hist.before, a) = 0
                      => CountDocuments(goals', a) = 1
                /\ CountDocuments(hist.before, a) > 0
                      => \A g \in GoalIds :
                            goals'[g].user_id = a => goals'[g] = hist.before[g]]_vars

\* a run ended complete that had found the seeded goal of an earlier run for
\* one account and none for the other: each account has exactly one goal
C28_Witness ==
    /\ hist.kind = "seeding"
    /\ \E r \in Slots : req[r].op = "idle" /\ req[r].res.code = 200
    /\ \E a \in AcctIds :
          /\ CountDocuments(hist.before, a) = 1
          /\ \E g \in GoalIds : /\ hist.before[g].user_id = a
                                 /\ hist.before[g].target_amount = MinTarget
    /\ \E a \in AcctIds : CountDocuments(hist.before, a) = 0
    /\ \A a \in AcctIds : accounts[a].ex /\ CountDocuments(goals, a) = 1

\* the step leaves the balance, the transactions, the categories and the
\* goals of account b as they were
Untouched(b) ==
    /\ accounts'[b] = accounts[b]
    /\ \A i \in TxIds :
          \/ txs'[i] = txs[i]
          \/ ~(txs[i].ex /\ txs[i].id_akun = b) /\ ~(txs'[i].ex /\ txs'[i].id_akun = b)
    /\ \A k \in CatKeys : k[1] = b => cats'[k] = cats[k]
    /\ \A g \in GoalIds :
          \/ goals'[g] = goals[g]
          \/ ~(goals[g].ex /\ goals[g].user_id = b)
                /\ ~(goals'[g].ex /\ goals'[g].user_id = b)

\* C29: cross-account isolation.  The commit of a create, update or delete
\* of a transaction of account A leaves the balance, the transactions, the
\* categories and the goals of every other account as they were.
C29_AccountIsolation ==
    [][\A r \in Slots :
         LedgerCommits(r) => \A b \in AcctIds \ {Looked(r)} : Untouched(b)]_vars

\* C30: incremental aggregation agrees with the full rebuild.  From
\* accounts without transactions and categories, after any sequence of
\* create, update and delete transaction requests, the commit of a rebuild
\* creates no category and changes no category balance.
C30_RebuildChangesNothing ==
    [][\A r \in Slots :
         Commits(r) /\ req[r].op = "rebuild" => cats' = cats]_vars

\* a rebuild committed after three requests and wrote nothing, with a
\* category of its account that holds an amount and one that is back at 0
C30_Witness ==
    /\ hist.kind = "rebuilt"
    /\ ~hist.wrote
    /\ nops = MaxOps
    /\ \E k \in CatKeys : k[1] = hist.id /\ cats[k].ex /\ cats[k].balance > 0
    /\ \E k \in CatKeys : k[1] = hist.id /\ cats[k].ex /\ cats[k].balance = 0

\* C31: the reported outcome matches the committed state.  A request whose
\* unit has committed ends with its success response and in no other way
\* (its catch block, which aborts, does not run after the commit); and a
\* request that ends with an error has committed none of its writes: it
\* ends before its commit and leaves every document as it was.
C31_OutcomeMatchesCommit ==
    [][\A r \in Slots :
         /\ (req[r].pc = "reread" /\ req'[r].op = "idle")
               => req'[r].res.code = 200
         /\ EndsInError(r) => req[r].pc # "reread" /\ db' = db]_vars

\* C32: category balances are never negative.  In every state reached by
\* create, update and delete requests for transactions with positive
\* amounts and by manual deletions of categories, every category has a
\* balance of at least 0.
C32_CategoriesNonNegative ==
    \A k \in CatKeys : cats[k].ex => cats[k].balance >= 0

====
